---- MODULE Spec2Model ----
(***************************************************************************)
(* Model of app.py: the Google Scholar extractor (ScholarSearcher), the    *)
(* author tag store (TagManager) and the Flask routes that call them.      *)
(*                                                                         *)
(* Strings are sequences of one-character strings, so that strip() and     *)
(* split() are computed rather than assumed.  A Python dict is a function  *)
(* whose domain is the set of its keys; a Python list is a sequence.       *)
(***************************************************************************)
EXTENDS Integers, Sequences, FiniteSets, TLC

VARIABLES
    author_tags,   \* TagManager.author_tags when it is a dict
    store_type,    \* "dict" or "list": the Python type json.load returned
    tags_file,     \* content of the file TAGS_FILE
    call,          \* the last call made: [op, author, tag] as passed in
    outcome,       \* how the last call ended: "ok", "rejected" or an exception
    before,        \* author_tags as it was when the last call started
    held,          \* the list object the last get_tags call returned
    snap,          \* what that list held at the moment it was returned
    log,           \* the add/remove calls that reached the store, in order
    pc,            \* per request thread: the statement it is about to run
    req,           \* per request thread: the request it serves
    buf,           \* per request thread: what json.dump put in its file buffer
    exc,           \* per request thread: the exception that ended it
    start_tags,    \* author_tags when the concurrent requests arrived
    papers_in,     \* argument papers of the last filter_papers_by_tags call
    selected_tags, \* argument selected_tags of that call
    filtered,      \* its return value
    page,          \* result blocks of the last fetched page
    fetch_ok,      \* whether the HTTP request of the last search succeeded
    papers         \* return value of the last search_by_title call

vars == <<author_tags, store_type, tags_file, call, outcome, before, held,
          snap, log, pc, req, buf, exc, start_tags, papers_in, selected_tags,
          filtered, page, fetch_ok, papers>>

aliasVars   == <<held, snap>>
threadVars  == <<pc, req, buf, exc, start_tags>>
filterVars  == <<papers_in, selected_tags, filtered>>
extractVars == <<page, fetch_ok, papers>>

----------------------------------------------------------------------------
(* Strings *)

Whitespace == {" "}

RECURSIVE LStrip(_)
LStrip(s) == IF s = <<>> THEN s
             ELSE IF Head(s) \in Whitespace THEN LStrip(Tail(s)) ELSE s

RECURSIVE RStrip(_)
RStrip(s) == IF s = <<>> THEN s
             ELSE IF s[Len(s)] \in Whitespace
                  THEN RStrip(SubSeq(s, 1, Len(s) - 1)) ELSE s

\* str.strip()
Strip(s) == RStrip(LStrip(s))

\* x in list
InList(x, l) == \E i \in 1..Len(l) : l[i] = x

----------------------------------------------------------------------------
(* Dicts *)

EmptyDict == [k \in {} |-> <<>>]

DictPut(d, k, v) == [x \in (DOMAIN d) \cup {k} |-> IF x = k THEN v ELSE d[x]]

DictDel(d, k) == [x \in (DOMAIN d) \ {k} |-> d[x]]

\* list.remove(x): drops the first occurrence of x
RECURSIVE ListRemove(_, _)
ListRemove(l, x) == IF l = <<>> THEN l
                    ELSE IF Head(l) = x THEN Tail(l)
                    ELSE <<Head(l)>> \o ListRemove(Tail(l), x)

----------------------------------------------------------------------------
(* TagManager: the in-memory part of add_tag and remove_tag *)

AddTagPrepends(d, author, tag) ==
    LET d1 == IF author \notin DOMAIN d THEN DictPut(d, author, <<>>) ELSE d
    IN  IF ~InList(tag, d1[author])
        THEN [d1 EXCEPT ![author] = <<tag>> \o @]
        ELSE d1

AddTagDict(d, author, tag) ==
    LET d1 == IF author \notin DOMAIN d THEN DictPut(d, author, <<>>) ELSE d
    IN  IF ~InList(tag, d1[author])
        THEN [d1 EXCEPT ![author] = Append(@, tag)]
        ELSE d1

RemoveTagKeepsEmpty(d, author, tag) ==
    IF author \in DOMAIN d /\ InList(tag, d[author])
    THEN [d EXCEPT ![author] = ListRemove(@, tag)]
    ELSE d

RemoveTagDict(d, author, tag) ==
    IF author \in DOMAIN d /\ InList(tag, d[author])
    THEN LET l == ListRemove(d[author], tag)
         IN  IF l = <<>> THEN DictDel(d, author)
             ELSE [d EXCEPT ![author] = l]
    ELSE d

\* whether remove_tag takes the branch that mutates and saves
RemoveTagHits(d, author, tag) ==
    author \in DOMAIN d /\ InList(tag, d[author])

----------------------------------------------------------------------------
(* TagManager: the file *)

FileMissing     == [kind |-> "missing",     dict |-> EmptyDict]
FileUnparseable == [kind |-> "unparseable", dict |-> EmptyDict]
FileArray       == [kind |-> "array",       dict |-> EmptyDict]
FileObject(d)   == [kind |-> "object",      dict |-> d]

\* The contents TAGS_FILE can have when the process starts: no file, a file
\* that is not JSON, the JSON document [] and the JSON document {}.
BootFiles == {FileMissing, FileUnparseable, FileArray, FileObject(EmptyDict)}

\* load_tags: what self.author_tags is bound to, as [type, dict]
load_tags(f) ==
    IF f.kind = "missing" THEN [type |-> "dict", dict |-> EmptyDict]
    ELSE IF f.kind = "unparseable" THEN [type |-> "dict", dict |-> EmptyDict]
    ELSE IF f.kind = "array" THEN [type |-> "list", dict |-> EmptyDict]
    ELSE [type |-> "dict", dict |-> f.dict]

\* What the operating system lets a write to TAGS_FILE do.
IoOutcomes == {"ok", "open_fails", "write_fails"}

\* save_tags: open(..., 'w') truncates, json.dump writes; the result is the
\* file afterwards and the exception that escapes, if any.
save_tags(d, f, io) ==
    IF io = "open_fails" THEN [file |-> f, exc |-> "OSError"]
    ELSE IF io = "write_fails" THEN [file |-> FileUnparseable, exc |-> "OSError"]
    ELSE [file |-> FileObject(d), exc |-> "ok"]

\* add_tag as a whole: [tags, file, exc] after the call
add_tag(type, d, f, author, tag, io) ==
    IF type = "list"
    THEN [tags |-> d, file |-> f, exc |-> "TypeError"]
    ELSE LET d2 == AddTagDict(d, author, tag)
             s  == save_tags(d2, f, io)
         IN  [tags |-> d2, file |-> s.file, exc |-> s.exc]

\* remove_tag as a whole: [tags, file, exc] after the call
remove_tag(type, d, f, author, tag, io) ==
    IF type = "list"
    THEN [tags |-> d, file |-> f, exc |-> "ok"]
    ELSE IF RemoveTagHits(d, author, tag)
    THEN LET d2 == RemoveTagDict(d, author, tag)
             s  == save_tags(d2, f, io)
         IN  [tags |-> d2, file |-> s.file, exc |-> s.exc]
    ELSE [tags |-> d, file |-> f, exc |-> "ok"]

----------------------------------------------------------------------------
(* TagManager.get_tags and the list object it hands out *)

\* get_tags returns self.author_tags.get(author, []): the list object stored
\* under author, not a copy, or a new empty list.  alias is <<author>> while
\* the returned object is still the one stored under author, <<>> otherwise.
get_tags(d, author) ==
    IF author \in DOMAIN d
    THEN [alias |-> <<author>>, tags |-> d[author]]
    ELSE [alias |-> <<>>, tags |-> <<>>]

NoList == [alias |-> <<>>, tags |-> <<>>]

\* append and remove work on the stored list object in place, so an object
\* handed out earlier shows the change; del drops the key, not the object.
InPlace(h, author, d2) ==
    IF h.alias = <<author>>
    THEN IF author \in DOMAIN d2
         THEN [h EXCEPT !.tags = d2[author]]
         ELSE NoList
    ELSE h

----------------------------------------------------------------------------
(* Inputs *)

\* author and tag fields of the JSON bodies sent to /add_tag and /remove_tag
RawAuthors == {<<"a">>, <<" ", "b">>, <<" ">>}
RawTags    == {<<"x">>, <<"y", " ">>, <<>>}

Threads == {1, 2}

IdleThreads ==
    /\ pc = [t \in Threads |-> "idle"]
    /\ req = [t \in Threads |-> [op |-> "none", author |-> <<>>, tag |-> <<>>]]
    /\ buf = [t \in Threads |-> EmptyDict]
    /\ exc = [t \in Threads |-> "ok"]
    /\ start_tags = EmptyDict

NoFilterCall ==
    /\ papers_in = <<>>
    /\ selected_tags = <<>>
    /\ filtered = <<>>

NoSearchCall ==
    /\ page = <<>>
    /\ fetch_ok = TRUE
    /\ papers = <<>>

NoCall == [op |-> "none", author |-> <<>>, tag |-> <<>>]

----------------------------------------------------------------------------
(* The tag service: TagManager(TAGS_FILE) and the routes that mutate it *)

\* tag_manager = TagManager(TAGS_FILE), run once at import
Init ==
    /\ tags_file \in BootFiles
    /\ store_type = load_tags(tags_file).type
    /\ author_tags = load_tags(tags_file).dict
    /\ call = NoCall
    /\ outcome = "ok"
    /\ before = author_tags
    /\ held = NoList
    /\ snap = <<>>
    /\ log = <<>>
    /\ IdleThreads
    /\ NoFilterCall
    /\ NoSearchCall

\* the effect of tag_manager.add_tag(author, tag) on the service
StoreAdd(author, tag, io) ==
    LET r == add_tag(store_type, author_tags, tags_file, author, tag, io)
    IN  /\ author_tags' = r.tags
        /\ tags_file' = r.file
        /\ outcome' = r.exc
        /\ held' = InPlace(held, author, r.tags)

\* the effect of tag_manager.remove_tag(author, tag) on the service
StoreRemove(author, tag, io) ==
    LET r == remove_tag(store_type, author_tags, tags_file, author, tag, io)
    IN  /\ author_tags' = r.tags
        /\ tags_file' = r.file
        /\ outcome' = r.exc
        /\ held' = InPlace(held, author, r.tags)

Rejected ==
    /\ outcome' = "rejected"
    /\ UNCHANGED <<author_tags, tags_file, held>>

\* POST /add_tag
AddTagRoute(rawAuthor, rawTag, io) ==
    LET author == Strip(rawAuthor)
        tag    == Strip(rawTag)
    IN  /\ call' = [op |-> "add", author |-> rawAuthor, tag |-> rawTag]
        /\ before' = author_tags
        /\ IF author = <<>> \/ tag = <<>>
           THEN Rejected
           ELSE StoreAdd(author, tag, io)
        /\ UNCHANGED <<store_type, snap>>

\* POST /remove_tag
RemoveTagRoute(rawAuthor, rawTag, io) ==
    LET author == Strip(rawAuthor)
        tag    == Strip(rawTag)
    IN  /\ call' = [op |-> "remove", author |-> rawAuthor, tag |-> rawTag]
        /\ before' = author_tags
        /\ IF author = <<>> \/ tag = <<>>
           THEN Rejected
           ELSE StoreRemove(author, tag, io)
        /\ UNCHANGED <<store_type, snap>>

AddTagRequest ==
    \E rawAuthor \in RawAuthors, rawTag \in RawTags, io \in IoOutcomes :
        /\ AddTagRoute(rawAuthor, rawTag, io)
        /\ UNCHANGED <<log, threadVars, filterVars, extractVars>>

RemoveTagRequest ==
    \E rawAuthor \in RawAuthors, rawTag \in RawTags, io \in IoOutcomes :
        /\ RemoveTagRoute(rawAuthor, rawTag, io)
        /\ UNCHANGED <<log, threadVars, filterVars, extractVars>>

\* tag_manager.get_tags(author), the caller keeping what it returns
GetTags ==
    \E rawAuthor \in RawAuthors :
        LET author == Strip(rawAuthor)
        IN  /\ call' = [op |-> "get", author |-> author, tag |-> <<>>]
            /\ before' = author_tags
            /\ IF store_type = "list"
               THEN /\ outcome' = "AttributeError"
                    /\ UNCHANGED <<held, snap>>
               ELSE /\ outcome' = "ok"
                    /\ held' = get_tags(author_tags, author)
                    /\ snap' = get_tags(author_tags, author).tags
            /\ UNCHANGED <<author_tags, store_type, tags_file>>
            /\ UNCHANGED <<log, threadVars, filterVars, extractVars>>

Next == AddTagRequest \/ RemoveTagRequest \/ GetTags

Spec == Init /\ [][Next]_vars

----------------------------------------------------------------------------
(* The tag service with the history of the calls that reached the store *)

MaxCalls == 4

Logged(op, rawAuthor, rawTag) ==
    LET author == Strip(rawAuthor)
        tag    == Strip(rawTag)
    IN  IF author = <<>> \/ tag = <<>>
        THEN UNCHANGED log
        ELSE log' = Append(log, [op |-> op, author |-> author, tag |-> tag])

HistAddTag ==
    \E rawAuthor \in RawAuthors, rawTag \in RawTags, io \in IoOutcomes :
        /\ Len(log) < MaxCalls
        /\ AddTagRoute(rawAuthor, rawTag, io)
        /\ Logged("add", rawAuthor, rawTag)
        /\ UNCHANGED <<threadVars, filterVars, extractVars>>

HistRemoveTag ==
    \E rawAuthor \in RawAuthors, rawTag \in RawTags, io \in IoOutcomes :
        /\ Len(log) < MaxCalls
        /\ RemoveTagRoute(rawAuthor, rawTag, io)
        /\ Logged("remove", rawAuthor, rawTag)
        /\ UNCHANGED <<threadVars, filterVars, extractVars>>

NextHist == HistAddTag \/ HistRemoveTag

SpecHist == Init /\ [][NextHist]_vars

----------------------------------------------------------------------------
(* Properties of the tag service *)

\* the author and tag of the last call as the store received them
CallAuthor == Strip(call.author)
CallTag    == Strip(call.tag)

\* C1: no author key maps to an empty tag list; a remove_tag that takes the
\* last tag of an author deletes the author's entry, so that get_tags of the
\* author is empty.
C1_NoEmptyTagList ==
    /\ \A a \in DOMAIN author_tags : author_tags[a] # <<>>
    /\ (/\ call.op = "remove"
        /\ CallAuthor \in DOMAIN before
        /\ before[CallAuthor] = <<CallTag>>)
       => (/\ CallAuthor \notin DOMAIN author_tags
           /\ get_tags(author_tags, CallAuthor).tags = <<>>)

\* a remove_tag call has just taken the last tag of an author
C1_Witness ==
    /\ call.op = "remove"
    /\ CallAuthor \in DOMAIN before
    /\ before[CallAuthor] = <<CallTag>>
    /\ CallAuthor \notin DOMAIN author_tags
    /\ DOMAIN author_tags # {}

\* C2: a mutating add_tag or remove_tag call is durable or did not happen:
\* after a normal return the file holds the in-memory mapping, and after a
\* failed write the in-memory mapping is what it was before the call.
C2_DurableOrNotHappened ==
    (call.op \in {"add", "remove"})
       => (/\ (outcome = "OSError") => (author_tags = before)
           /\ (outcome = "ok" /\ author_tags # before)
                 => (tags_file = FileObject(author_tags)))

\* C8: the tags a get_tags call returned are a snapshot: later add_tag and
\* remove_tag calls do not change them.
C8_SnapshotNotLinked == held.tags = snap

\* C10: loading from a missing or corrupt file yields the empty mapping, and
\* no later call fails for lack of a mapping.
C10_LoadAlwaysUsable ==
    /\ (call = NoCall /\ tags_file.kind \in {"missing", "unparseable", "array"})
          => (store_type = "dict" /\ author_tags = EmptyDict)
    /\ outcome \notin {"TypeError", "AttributeError"}

----------------------------------------------------------------------------
(* Properties of the history *)

HistAuthors == {Strip(a) : a \in RawAuthors} \ {<<>>}
HistTags    == {Strip(t) : t \in RawTags} \ {<<>>}

Entry(op, a, t) == [op |-> op, author |-> a, tag |-> t]

\* t is among the tags of a after the first k calls of the log
PresentAfter(a, t, k) ==
    \E i \in 1..k :
        /\ log[i] = Entry("add", a, t)
        /\ \A j \in (i + 1)..k : log[j] # Entry("remove", a, t)

\* the add call that put t where it now is: the last one that found t absent
InsertedAt(a, t) ==
    CHOOSE i \in 1..Len(log) :
        /\ log[i] = Entry("add", a, t)
        /\ ~PresentAfter(a, t, i - 1)
        /\ \A j \in (i + 1)..Len(log) :
              ~(log[j] = Entry("add", a, t) /\ ~PresentAfter(a, t, j - 1))

\* the first add call for t
FirstAddedAt(a, t) ==
    CHOOSE i \in 1..Len(log) :
        /\ log[i] = Entry("add", a, t)
        /\ \A j \in 1..(i - 1) : log[j] # Entry("add", a, t)

TagsNow(a) == IF a \in DOMAIN author_tags THEN author_tags[a] ELSE <<>>

Idempotent ==
    \A a \in HistAuthors, t \in HistTags :
        AddTagDict(AddTagDict(author_tags, a, t), a, t)
            = AddTagDict(author_tags, a, t)

DuplicateFree ==
    \A a \in HistAuthors :
        /\ \A i, j \in 1..Len(TagsNow(a)) :
              i # j => TagsNow(a)[i] # TagsNow(a)[j]
        /\ \A t \in HistTags :
              InList(t, TagsNow(a)) <=> PresentAfter(a, t, Len(log))

\* C4 as stated: add_tag is idempotent, tag lists hold no tag twice, and a
\* list gives its tags in the order in which they were first added.
C4_FirstAddedOrder ==
    (store_type = "dict") =>
        /\ Idempotent
        /\ DuplicateFree
        /\ \A a \in HistAuthors : \A i, j \in 1..Len(TagsNow(a)) :
              i < j => FirstAddedAt(a, TagsNow(a)[i])
                           < FirstAddedAt(a, TagsNow(a)[j])

\* C4 amended: add_tag is idempotent, tag lists hold no tag twice, and a
\* list gives its tags in the order of the add calls that inserted them (the
\* last add call that found the tag absent), so a tag removed and added
\* again moves to the end.
C4_InsertionOrder ==
    (store_type = "dict") =>
        /\ Idempotent
        /\ DuplicateFree
        /\ \A a \in HistAuthors : \A i, j \in 1..Len(TagsNow(a)) :
              i < j => InsertedAt(a, TagsNow(a)[i])
                           < InsertedAt(a, TagsNow(a)[j])

\* an author has two tags, the first of which was added again after being
\* removed, and an add call for a tag already present has been made
C4_Witness ==
    /\ store_type = "dict"
    /\ \E a \in HistAuthors :
          /\ Len(TagsNow(a)) = 2
          /\ FirstAddedAt(a, TagsNow(a)[2]) < FirstAddedAt(a, TagsNow(a)[1])

----------------------------------------------------------------------------
(* TagManager called directly, with arguments nobody has trimmed or checked *)

ApiAuthors == {<<"a">>, <<" ">>}
ApiTags    == {<<"x">>, <<>>}

\* tag_manager.add_tag(author, tag)
ApiAddTag ==
    \E author \in ApiAuthors, tag \in ApiTags, io \in IoOutcomes :
        /\ call' = [op |-> "add", author |-> author, tag |-> tag]
        /\ before' = author_tags
        /\ StoreAdd(author, tag, io)
        /\ UNCHANGED <<store_type, snap>>
        /\ UNCHANGED <<log, threadVars, filterVars, extractVars>>

\* tag_manager.remove_tag(author, tag)
ApiRemoveTag ==
    \E author \in ApiAuthors, tag \in ApiTags, io \in IoOutcomes :
        /\ call' = [op |-> "remove", author |-> author, tag |-> tag]
        /\ before' = author_tags
        /\ StoreRemove(author, tag, io)
        /\ UNCHANGED <<store_type, snap>>
        /\ UNCHANGED <<log, threadVars, filterVars, extractVars>>

NextApi == ApiAddTag \/ ApiRemoveTag

SpecApi == Init /\ [][NextApi]_vars

\* C3: TagManager.add_tag with an author or a tag that is empty after
\* trimming changes neither the in-memory mapping nor the file and raises
\* nothing.
C3_BlankAddIsNoOp ==
    [][(/\ call'.op = "add"
        /\ (Strip(call'.author) = <<>> \/ Strip(call'.tag) = <<>>))
       => (/\ author_tags' = author_tags
           /\ tags_file' = tags_file
           /\ outcome' = "ok")]_vars

----------------------------------------------------------------------------
(* TagManager.filter_papers_by_tags *)

\* any(tag in author_tags for tag in selected_tags)
AnyTagSelected(d, author, sel) ==
    \E i \in 1..Len(sel) : InList(sel[i], get_tags(d, author).tags)

\* [tag for tag in auth_tags if tag in selected_tags]
RECURSIVE MatchingTags(_, _)
MatchingTags(tags, sel) ==
    IF tags = <<>> THEN <<>>
    ELSE (IF InList(Head(tags), sel) THEN <<Head(tags)>> ELSE <<>>)
             \o MatchingTags(Tail(tags), sel)

RECURSIVE MatchingAuthorsFirstOnly(_, _, _)
MatchingAuthorsFirstOnly(d, authors, sel) ==
    IF authors = <<>> THEN <<>>
    ELSE LET auth == Head(authors)
             auth_tags == get_tags(d, auth).tags
             matching_tags == MatchingTags(auth_tags, sel)
         IN  IF matching_tags # <<>>
             THEN <<[name |-> auth, tags |-> auth_tags,
                     matching_tags |-> matching_tags]>>
             ELSE MatchingAuthorsFirstOnly(d, Tail(authors), sel)

\* the loop that fills paper['matching_authors']
RECURSIVE MatchingAuthors(_, _, _)
MatchingAuthors(d, authors, sel) ==
    IF authors = <<>> THEN <<>>
    ELSE LET auth == Head(authors)
             auth_tags == get_tags(d, auth).tags
             matching_tags == MatchingTags(auth_tags, sel)
         IN  (IF matching_tags # <<>>
              THEN <<[name |-> auth, tags |-> auth_tags,
                      matching_tags |-> matching_tags]>>
              ELSE <<>>) \o MatchingAuthors(d, Tail(authors), sel)

WithMatchingAuthors(d, paper, sel) ==
    [title |-> paper.title, authors |-> paper.authors,
     matching_authors |-> MatchingAuthors(d, paper.authors, sel)]

RECURSIVE ScanAuthorsNoBreak(_, _, _, _)
ScanAuthorsNoBreak(d, paper, k, sel) ==
    IF k > Len(paper.authors) THEN <<>>
    ELSE IF AnyTagSelected(d, paper.authors[k], sel)
    THEN <<WithMatchingAuthors(d, paper, sel)>>
             \o ScanAuthorsNoBreak(d, paper, k + 1, sel)
    ELSE ScanAuthorsNoBreak(d, paper, k + 1, sel)

\* the loop over paper['authors'] from its k-th author on: what it appends
\* to filtered_papers
RECURSIVE ScanAuthors(_, _, _, _)
ScanAuthors(d, paper, k, sel) ==
    IF k > Len(paper.authors) THEN <<>>
    ELSE IF AnyTagSelected(d, paper.authors[k], sel)
    THEN <<WithMatchingAuthors(d, paper, sel)>>
    ELSE ScanAuthors(d, paper, k + 1, sel)

\* the loop over papers
RECURSIVE FilterLoop(_, _, _)
FilterLoop(d, ps, sel) ==
    IF ps = <<>> THEN <<>>
    ELSE ScanAuthors(d, Head(ps), 1, sel) \o FilterLoop(d, Tail(ps), sel)

filter_papers_by_tags(d, ps, sel) ==
    IF sel = <<>> THEN ps ELSE FilterLoop(d, ps, sel)

----------------------------------------------------------------------------
(* filter_papers_by_tags applied to a store, a list of papers and a list of
   selected tags *)

MaxPapers  == 2
MaxAuthors == 2

SeqsUpTo(S, n) == UNION {[1..k -> S] : k \in 0..n}

StoreAuthors == {<<"a">>, <<"b">>}
StoreTags    == {<<"x">>, <<"y">>}

\* the tag lists add_tag and remove_tag can leave under a key
TagLists ==
    {l \in SeqsUpTo(StoreTags, Cardinality(StoreTags)) :
        /\ l # <<>>
        /\ \A i, j \in 1..Len(l) : i # j => l[i] # l[j]}

\* the mappings the tag service can hold
Stores == UNION {[D -> TagLists] : D \in SUBSET StoreAuthors}

\* the names a byline can give; nobody has tagged "c"
PaperAuthors == StoreAuthors \cup {<<"c">>}

AuthorLists == SeqsUpTo(PaperAuthors, MaxAuthors)

PaperLists ==
    {[i \in 1..Len(al) |-> [title |-> i, authors |-> al[i]]] :
        al \in SeqsUpTo(AuthorLists, MaxPapers)}

SelectedOptions ==
    {<<>>, <<<<"x">>>>, <<<<"y">>>>, <<<<"x">>, <<"y">>>>,
     <<<<"y">>, <<"x">>>>, <<<<"z">>>>}

InitFilter ==
    /\ author_tags \in Stores
    /\ store_type = "dict"
    /\ tags_file = FileObject(author_tags)
    /\ call = NoCall
    /\ outcome = "ok"
    /\ before = author_tags
    /\ held = NoList
    /\ snap = <<>>
    /\ log = <<>>
    /\ IdleThreads
    /\ papers_in \in PaperLists
    /\ selected_tags \in SelectedOptions
    /\ filtered = <<>>
    /\ NoSearchCall

\* tag_manager.filter_papers_by_tags(papers, selected_tags)
FilterPapers ==
    /\ call = NoCall
    /\ call' = [op |-> "filter", author |-> <<>>, tag |-> <<>>]
    /\ filtered' = filter_papers_by_tags(author_tags, papers_in, selected_tags)
    /\ UNCHANGED <<author_tags, store_type, tags_file, outcome, before>>
    /\ UNCHANGED <<papers_in, selected_tags>>
    /\ UNCHANGED <<aliasVars, log, threadVars, extractVars>>

NextFilter == FilterPapers

SpecFilter == InitFilter /\ [][NextFilter]_vars

Tagged(author) ==
    {TagsNow(author)[i] : i \in 1..Len(TagsNow(author))}

Selected == {selected_tags[i] : i \in 1..Len(selected_tags)}

\* some author of the paper has a selected tag
Passes(paper) ==
    \E i \in 1..Len(paper.authors) :
        Tagged(paper.authors[i]) \cap Selected # {}

Bare(paper) == [title |-> paper.title, authors |-> paper.authors]

\* C5: with no selected tag the result is the input itself; otherwise it is
\* the papers that have an author with a selected tag, in input order and
\* each once, so that a paper without authors is never in it.
C5_FilterIsSubsequence ==
    (call.op = "filter") =>
        IF selected_tags = <<>>
        THEN filtered = papers_in
        ELSE [i \in 1..Len(filtered) |-> Bare(filtered[i])]
                 = SelectSeq(papers_in, Passes)

\* a filter that kept a paper with two tagged authors and dropped a paper
\* without authors
C5_Witness ==
    /\ call.op = "filter"
    /\ selected_tags # <<>>
    /\ \E i \in 1..Len(papers_in) : papers_in[i].authors = <<>>
    /\ \E i \in 1..Len(filtered) :
          /\ Len(filtered[i].authors) = 2
          /\ \A k \in 1..2 :
                Tagged(filtered[i].authors[k]) \cap Selected # {}

\* the authors of the paper that have a selected tag, in byline order, each
\* with all its tags and with its tags that are selected
ExpectedMatchingAuthors(paper) ==
    LET hit == SelectSeq(paper.authors,
                         LAMBDA a : Tagged(a) \cap Selected # {})
    IN  [k \in 1..Len(hit) |->
            [name |-> hit[k],
             tags |-> TagsNow(hit[k]),
             matching_tags |->
                 SelectSeq(TagsNow(hit[k]), LAMBDA t : t \in Selected)]]

\* C6: matching_authors of a paper that passed the filter lists every author
\* of the paper that has a selected tag, in byline order, with the author's
\* tags and the selected ones among them.
C6_MatchingAuthorsComplete ==
    (call.op = "filter" /\ selected_tags # <<>>) =>
        \A i \in 1..Len(filtered) :
            filtered[i].matching_authors
                = ExpectedMatchingAuthors(filtered[i])

\* a kept paper whose two authors both match, and a kept paper whose first
\* author does not match
C6_Witness ==
    /\ call.op = "filter"
    /\ selected_tags # <<>>
    /\ \E i \in 1..Len(filtered) :
          /\ Len(filtered[i].matching_authors) = 2
          /\ Len(filtered[i].matching_authors[1].tags) = 2
          /\ Len(filtered[i].matching_authors[1].matching_tags) = 1
    /\ \E i \in 1..Len(filtered) :
          /\ Len(filtered[i].matching_authors) = 1
          /\ filtered[i].matching_authors[1].name # filtered[i].authors[1]

----------------------------------------------------------------------------
(* ScholarSearcher.extract_paper_info *)

\* An element that find() did not find is <<>>, one it found is <<text>>.
\* A Python None, or a value returned in its place, is written the same way.

\* the position of the first occurrence of sub in s, 0 when there is none
IndexOf(s, sub) ==
    LET hits == {i \in 1..(Len(s) - Len(sub) + 1) :
                    SubSeq(s, i, i + Len(sub) - 1) = sub}
    IN  IF hits = {} THEN 0
        ELSE CHOOSE i \in hits : \A j \in hits : i <= j

\* s.split(sep): the pieces of s between the occurrences of sep
RECURSIVE Split(_, _)
Split(s, sep) ==
    LET i == IndexOf(s, sep)
    IN  IF i = 0 THEN <<s>>
        ELSE <<SubSeq(s, 1, i - 1)>>
                 \o Split(SubSeq(s, i + Len(sep), Len(s)), sep)

Digits == <<"0", "1", "2", "3", "4", "5", "6", "7", "8", "9">>

IsDigit(c) == \E i \in 1..10 : Digits[i] = c

DigitValue(c) == (CHOOSE i \in 1..10 : Digits[i] = c) - 1

RECURSIVE DecimalValue(_)
DecimalValue(s) ==
    IF s = <<>> THEN 0
    ELSE 10 * DecimalValue(SubSeq(s, 1, Len(s) - 1)) + DigitValue(s[Len(s)])

\* int(s): <<n>>, or <<>> when int raises ValueError
ParseInt(s) ==
    LET t == Strip(s)
        signed == t # <<>> /\ Head(t) \in {"+", "-"}
        ds == IF signed THEN Tail(t) ELSE t
    IN  IF ds = <<>> \/ \E i \in 1..Len(ds) : ~IsDigit(ds[i])
        THEN <<>>
        ELSE IF signed /\ Head(t) = "-" THEN <<0 - DecimalValue(ds)>>
        ELSE <<DecimalValue(ds)>>

UnknownTitle ==
    <<"U", "n", "k", "n", "o", "w", "n", " ", "T", "i", "t", "l", "e">>
CitedBy      == <<"C", "i", "t", "e", "d", " ", "b", "y">>
CitedBySpace == <<"C", "i", "t", "e", "d", " ", "b", "y", " ">>
Dash         == <<" ", "-", " ">>
Comma        == <<",">>

\* result_div.find('a', string=lambda x: x and 'Cited by' in x)
RECURSIVE FindCited(_)
FindCited(anchors) ==
    IF anchors = <<>> THEN <<>>
    ELSE IF IndexOf(Head(anchors), CitedBy) # 0 THEN <<Head(anchors)>>
    ELSE FindCited(Tail(anchors))

\* the citation count: the inner try/except turns IndexError and ValueError
\* into 0
CitedCount(anchors) ==
    LET cited_elem == FindCited(anchors)
    IN  IF cited_elem = <<>> THEN 0
        ELSE LET parts == Split(cited_elem[1], CitedBySpace)
             IN  IF Len(parts) < 2 THEN 0
                 ELSE IF ParseInt(parts[2]) = <<>> THEN 0
                 ELSE ParseInt(parts[2])[1]

AuthorsOf(authors_text) ==
    IF authors_text = <<>> THEN <<>>
    ELSE LET author_part == Split(authors_text, Dash)[1]
             names == Split(author_part, Comma)
         IN  [i \in 1..Len(names) |-> Strip(names[i])]

\* extract_paper_info: <<paper>>, or <<>> for the None of the except branch.
\* block.broken stands for a block on which a statement of the try body
\* raises.
extract_paper_info(block) ==
    IF block.broken THEN <<>>
    ELSE LET authors_text ==
                 IF block.byline = <<>> THEN <<>> ELSE block.byline[1]
         IN  <<[title |-> IF block.title = <<>> THEN UnknownTitle
                          ELSE block.title[1],
                authors |-> AuthorsOf(authors_text),
                snippet |-> IF block.snippet = <<>> THEN <<>>
                            ELSE block.snippet[1],
                cited_by |-> CitedCount(block.anchors),
                publication_info |-> authors_text]>>

----------------------------------------------------------------------------
(* ScholarSearcher.search_by_title *)

RECURSIVE ExtractLoopStopsAtFailure(_)
ExtractLoopStopsAtFailure(blocks) ==
    IF blocks = <<>> THEN <<>>
    ELSE LET paper == extract_paper_info(Head(blocks))
         IN  IF paper # <<>>
             THEN paper \o ExtractLoopStopsAtFailure(Tail(blocks))
             ELSE <<>>

\* the loop over soup.find_all(...): papers after it
RECURSIVE ExtractLoop(_)
ExtractLoop(blocks) ==
    IF blocks = <<>> THEN <<>>
    ELSE LET paper == extract_paper_info(Head(blocks))
         IN  (IF paper # <<>> THEN paper ELSE <<>>)
                 \o ExtractLoop(Tail(blocks))

\* search_by_title: ok tells whether requests.get and raise_for_status went
\* through, blocks are the result blocks of the page
search_by_title(ok, blocks) ==
    IF ok THEN ExtractLoop(blocks) ELSE <<>>

----------------------------------------------------------------------------
(* search_by_title applied to a results page *)

MaxBlocks == 3

Block(title, byline, snippet, anchors, broken) ==
    [title |-> title, byline |-> byline, snippet |-> snippet,
     anchors |-> anchors, broken |-> broken]

\* "a, b - J"
BylineTwo == <<"a", ",", " ", "b", " ", "-", " ", "J">>
\* "Cited by 42"
Cited42   == CitedBySpace \o <<"4", "2">>
\* "Cited by 4x"
Cited4x   == CitedBySpace \o <<"4", "x">>

Blocks ==
    { Block(<<<<"T">>>>, <<BylineTwo>>, <<<<"s">>>>, <<Cited42>>, FALSE),
      Block(<<>>, <<>>, <<>>, <<>>, FALSE),
      Block(<<<<"T">>>>, <<<<"b">>>>, <<>>, <<CitedBy>>, FALSE),
      Block(<<<<"U">>>>, <<<<" ", "-", " ", "J">>>>, <<<<"s">>>>,
            <<<<"R">>, Cited4x>>, FALSE),
      Block(<<<<"T">>>>, <<BylineTwo>>, <<<<"s">>>>, <<Cited42>>, TRUE),
      Block(<<>>, <<>>, <<>>, <<>>, TRUE) }

Pages == SeqsUpTo(Blocks, MaxBlocks)

InitExtract ==
    /\ tags_file \in BootFiles
    /\ store_type = load_tags(tags_file).type
    /\ author_tags = load_tags(tags_file).dict
    /\ call = NoCall
    /\ outcome = "ok"
    /\ before = author_tags
    /\ held = NoList
    /\ snap = <<>>
    /\ log = <<>>
    /\ IdleThreads
    /\ NoFilterCall
    /\ page \in Pages
    /\ fetch_ok \in BOOLEAN
    /\ papers = <<>>

\* searcher.search_by_title(title)
SearchByTitle ==
    /\ call = NoCall
    /\ call' = [op |-> "search", author |-> <<>>, tag |-> <<>>]
    /\ papers' = search_by_title(fetch_ok, page)
    /\ UNCHANGED <<author_tags, store_type, tags_file, outcome, before>>
    /\ UNCHANGED <<page, fetch_ok>>
    /\ UNCHANGED <<aliasVars, log, threadVars, filterVars>>

NextExtract == SearchByTitle

SpecExtract == InitExtract /\ [][NextExtract]_vars

\* the blocks of the page that extract
Sound == {i \in 1..Len(page) : ~page[i].broken}

\* how many sound blocks the page has up to its i-th
Rank(i) == Cardinality({j \in Sound : j <= i})

\* C9: a block that fails to extract is skipped and the search goes on: the
\* papers returned are the records of the blocks that extract, in page
\* order.
C9_BrokenBlocksSkipped ==
    (call.op = "search" /\ fetch_ok) =>
        /\ Len(papers) = Cardinality(Sound)
        /\ \A i \in Sound : <<papers[Rank(i)]>> = extract_paper_info(page[i])

\* a search that skipped a broken block and extracted a block after it
C9_Witness ==
    /\ call.op = "search"
    /\ fetch_ok
    /\ \E i, j \in 1..Len(page) :
          /\ i < j
          /\ page[i].broken
          /\ ~page[j].broken
          /\ papers[Rank(j)].authors = <<<<"a">>, <<"b">>>>
          /\ papers[Rank(j)].cited_by = 42

----------------------------------------------------------------------------
(* Two requests served at once: app.run serves each request on a thread of
   its own, and add_tag, remove_tag and save_tags take no lock, so the
   interpreter may switch threads between any two of their statements.  A
   step below is one statement; writes to the file succeed. *)

RECURSIVE SumLen(_, _)
SumLen(l, extra) ==
    IF l = <<>> THEN 0 ELSE Len(Head(l)) + extra + SumLen(Tail(l), extra)

\* the length of json.dumps(list, indent=2) two levels deep
JsonListLen(l) ==
    IF l = <<>> THEN 2
    ELSE 1 + SumLen(l, 7) + (Len(l) - 1) + 3 + 1

RECURSIVE JsonItemsLen(_, _)
JsonItemsLen(d, keys) ==
    IF keys = {} THEN 0
    ELSE LET k == CHOOSE x \in keys : TRUE
         IN  3 + (Len(k) + 2) + 2 + JsonListLen(d[k])
                 + JsonItemsLen(d, keys \ {k})

\* the number of characters json.dump(d, f, indent=2) writes
JsonLen(d) ==
    IF DOMAIN d = {} THEN 2
    ELSE 1 + JsonItemsLen(d, DOMAIN d) + (Cardinality(DOMAIN d) - 1) + 1 + 1

\* The buffered text reaches the file when the with block closes it.  It is
\* written from offset 0 over what the file holds by then: a longer document
\* another thread wrote after this thread's open keeps its tail.
WriteOver(f, d) ==
    IF f.kind = "object" /\ JsonLen(f.dict) > JsonLen(d)
    THEN FileUnparseable
    ELSE FileObject(d)

Requests ==
    [op : {"add", "remove"}, author : StoreAuthors, tag : StoreTags]

InitConc ==
    /\ author_tags \in Stores
    /\ store_type = "dict"
    /\ tags_file = FileObject(author_tags)
    /\ call = NoCall
    /\ outcome = "ok"
    /\ before = author_tags
    /\ held = NoList
    /\ snap = <<>>
    /\ log = <<>>
    /\ pc = [t \in Threads |-> "idle"]
    /\ req = [t \in Threads |-> NoCall]
    /\ buf = [t \in Threads |-> EmptyDict]
    /\ exc = [t \in Threads |-> "ok"]
    /\ start_tags = author_tags
    /\ NoFilterCall
    /\ NoSearchCall

Goto(t, label) == pc' = [pc EXCEPT ![t] = label]

Raise(t, name) ==
    /\ exc' = [exc EXCEPT ![t] = name]
    /\ Goto(t, "done")

otherVars == <<store_type, call, outcome, before, aliasVars, log, start_tags,
               filterVars, extractVars>>

\* the route calls tag_manager.add_tag or tag_manager.remove_tag
Arrive(t) ==
    /\ pc[t] = "idle"
    /\ \E r \in Requests :
          /\ req' = [req EXCEPT ![t] = r]
          /\ Goto(t, IF r.op = "add" THEN "add_check" ELSE "rem_check")
    /\ UNCHANGED <<author_tags, tags_file, buf, exc, otherVars>>

\* if author not in self.author_tags:
AddCheck(t) ==
    /\ pc[t] = "add_check"
    /\ Goto(t, IF req[t].author \notin DOMAIN author_tags
               THEN "add_init" ELSE "add_test")
    /\ UNCHANGED <<author_tags, tags_file, req, buf, exc, otherVars>>

\* self.author_tags[author] = []
AddInit(t) ==
    /\ pc[t] = "add_init"
    /\ author_tags' = DictPut(author_tags, req[t].author, <<>>)
    /\ Goto(t, "add_test")
    /\ UNCHANGED <<tags_file, req, buf, exc, otherVars>>

\* if tag not in self.author_tags[author]:
AddTest(t) ==
    /\ pc[t] = "add_test"
    /\ IF req[t].author \notin DOMAIN author_tags
       THEN Raise(t, "KeyError")
       ELSE /\ Goto(t, IF ~InList(req[t].tag, author_tags[req[t].author])
                       THEN "add_append" ELSE "save_open")
            /\ UNCHANGED exc
    /\ UNCHANGED <<author_tags, tags_file, req, buf, otherVars>>

\* self.author_tags[author].append(tag)
AddAppend(t) ==
    /\ pc[t] = "add_append"
    /\ IF req[t].author \notin DOMAIN author_tags
       THEN /\ Raise(t, "KeyError")
            /\ UNCHANGED author_tags
       ELSE /\ author_tags' =
                   [author_tags EXCEPT ![req[t].author] = Append(@, req[t].tag)]
            /\ Goto(t, "save_open")
            /\ UNCHANGED exc
    /\ UNCHANGED <<tags_file, req, buf, otherVars>>

\* if author in self.author_tags and tag in self.author_tags[author]:
RemCheck(t) ==
    /\ pc[t] = "rem_check"
    /\ Goto(t, IF RemoveTagHits(author_tags, req[t].author, req[t].tag)
               THEN "rem_remove" ELSE "done")
    /\ UNCHANGED <<author_tags, tags_file, req, buf, exc, otherVars>>

\* self.author_tags[author].remove(tag)
RemRemove(t) ==
    /\ pc[t] = "rem_remove"
    /\ IF req[t].author \notin DOMAIN author_tags
       THEN /\ Raise(t, "KeyError")
            /\ UNCHANGED author_tags
       ELSE IF ~InList(req[t].tag, author_tags[req[t].author])
       THEN /\ Raise(t, "ValueError")
            /\ UNCHANGED author_tags
       ELSE /\ author_tags' =
                   [author_tags EXCEPT
                      ![req[t].author] = ListRemove(@, req[t].tag)]
            /\ Goto(t, "rem_test")
            /\ UNCHANGED exc
    /\ UNCHANGED <<tags_file, req, buf, otherVars>>

\* if not self.author_tags[author]:
RemTest(t) ==
    /\ pc[t] = "rem_test"
    /\ IF req[t].author \notin DOMAIN author_tags
       THEN Raise(t, "KeyError")
       ELSE /\ Goto(t, IF author_tags[req[t].author] = <<>>
                       THEN "rem_del" ELSE "save_open")
            /\ UNCHANGED exc
    /\ UNCHANGED <<author_tags, tags_file, req, buf, otherVars>>

\* del self.author_tags[author]
RemDel(t) ==
    /\ pc[t] = "rem_del"
    /\ IF req[t].author \notin DOMAIN author_tags
       THEN /\ Raise(t, "KeyError")
            /\ UNCHANGED author_tags
       ELSE /\ author_tags' = DictDel(author_tags, req[t].author)
            /\ Goto(t, "save_open")
            /\ UNCHANGED exc
    /\ UNCHANGED <<tags_file, req, buf, otherVars>>

\* with open(self.tags_file, 'w') as f: the file is truncated
SaveOpen(t) ==
    /\ pc[t] = "save_open"
    /\ tags_file' = FileUnparseable
    /\ Goto(t, "save_dump")
    /\ UNCHANGED <<author_tags, req, buf, exc, otherVars>>

\* json.dump(self.author_tags, f, indent=2): into the buffer of f
SaveDump(t) ==
    /\ pc[t] = "save_dump"
    /\ buf' = [buf EXCEPT ![t] = author_tags]
    /\ Goto(t, "save_close")
    /\ UNCHANGED <<author_tags, tags_file, req, exc, otherVars>>

\* leaving the with block: f is flushed and closed
SaveClose(t) ==
    /\ pc[t] = "save_close"
    /\ tags_file' = WriteOver(tags_file, buf[t])
    /\ Goto(t, "done")
    /\ UNCHANGED <<author_tags, req, buf, exc, otherVars>>

NextConc ==
    \E t \in Threads :
        \/ Arrive(t)
        \/ AddCheck(t) \/ AddInit(t) \/ AddTest(t) \/ AddAppend(t)
        \/ RemCheck(t) \/ RemRemove(t) \/ RemTest(t) \/ RemDel(t)
        \/ SaveOpen(t) \/ SaveDump(t) \/ SaveClose(t)

SpecConc == InitConc /\ [][NextConc]_vars

\* one request run alone, from start to end, on the mapping d
Alone(d, r) ==
    IF r.op = "add" THEN AddTagDict(d, r.author, r.tag)
    ELSE RemoveTagDict(d, r.author, r.tag)

\* C7: requests served at once do not lose updates: none of them raises, and
\* when both are done the in-memory mapping and the file are what running
\* the two requests one after the other, in one of the two orders, leaves.
C7_NoLostUpdate ==
    (\A t \in Threads : pc[t] = "done") =>
        /\ \A t \in Threads : exc[t] = "ok"
        /\ \E t, u \in Threads :
              /\ t # u
              /\ author_tags = Alone(Alone(start_tags, req[t]), req[u])
              /\ tags_file = FileObject(author_tags)

====
